---- MODULE Spec2Model ----
(***************************************************************************)
(* Scaled dot-product attention heads and their multi-head composition,    *)
(* as written in multiheadattention.ipynb, selfattention.ipynb and the     *)
(* masked self-attention notebook.                                         *)
(*                                                                         *)
(* Arrays are 2-D matrices [nr, nc, e].  float32 values are modelled in    *)
(* fixed point: inputs are integers, weights are k/WRes, scaled scores are *)
(* multiples of 1/ScoreRes, exponentials and attention weights are         *)
(* multiples of 1/ExpOne.  Every rounding is towards minus infinity.       *)
(***************************************************************************)
EXTENDS Integers, Sequences, FiniteSets, TLC

\* ------------------------------------------------------------ bounds
MaxSeq == 2
MaxD == 2
MaxHeads == 2
MaxSeed == 1
MaxDraws == 2
MaxInput == 1

\* ------------------------------------------------- numeric resolution
\* jax.random.uniform draws from [0, 1): a weight is k / WRes, k in 0..WRes-1
WRes == 4
\* resolution of a scaled similarity score
ScoreRes == 2
\* resolution of jnp.sqrt
SqrtRes == 100
\* 1.0 of an exponential or of an attention weight
ExpOne == 4096
\* exp(-1/ScoreRes) in units of 1/ExpOne
ExpStep == 2484
\* exp(z) is 0 in float32 for z below about -104
ExpUnderflow == 104
\* the mask sentinel of jnp.where(mask, -1e9, scaled_sims)
Sentinel == -1000000000

\* ------------------------------------------------------------ arrays
Mat(nr, nc, f) ==
    [nr |-> nr, nc |-> nc, e |-> [i \in 1..nr |-> [j \in 1..nc |-> f[i, j]]]]

Sum(f, n) ==
    LET RECURSIVE S(_)
        S(k) == IF k = 0 THEN 0 ELSE f[k] + S(k - 1)
    IN S(n)

MaxOf(f, n) ==
    LET RECURSIVE M(_)
        M(k) == IF k = 1 THEN f[1] ELSE IF f[k] > M(k - 1) THEN f[k] ELSE M(k - 1)
    IN M(n)

\* a @ b for 2-D arrays; the contracting dimensions must agree
MatmulOk(a, b) == a.nc = b.nr

Matmul(a, b) ==
    LET Cell(i, j) == Sum([t \in 1..a.nc |-> a.e[i][t] * b.e[t][j]], a.nc)
    IN Mat(a.nr, b.nc, [i \in 1..a.nr, j \in 1..b.nc |-> Cell(i, j)])

\* x.swapaxes(a1, a2) of a 2-D array
Swapaxes(x, a1, a2) ==
    IF a1 = a2 THEN x
    ELSE Mat(x.nc, x.nr, [i \in 1..x.nc, j \in 1..x.nr |-> x.e[j][i]])

NoMat == [nr |-> 0, nc |-> 0, e |-> << >>]

\* ----------------------------------------------------------- float32
\* floor(sqrt(n) * SqrtRes): jnp.sqrt(self.d_model)
SqrtFx(n) == CHOOSE r \in 0..(n * SqrtRes) :
                 r * r <= n * SqrtRes * SqrtRes /\ (r + 1) * (r + 1) > n * SqrtRes * SqrtRes

\* exp(z / ScoreRes) for z <= 0, in units of 1/ExpOne
ExpFx(z) ==
    LET RECURSIVE R(_)
        R(k) == IF k = 0 THEN ExpOne ELSE (R(k - 1) * ExpStep) \div ExpOne
    IN IF z < -(ExpUnderflow * ScoreRes) THEN 0 ELSE R(-z)

\* s / root for root = jnp.sqrt(d_model): a score in units of 1/(WRes*WRes)
\* becomes a scaled score in units of 1/ScoreRes
ScaleFx(s, root) == (s * ScoreRes * SqrtRes) \div (WRes * WRes * root)

\* jax.nn.softmax of one vector of n scores: max-subtraction, exp, normalise
SoftmaxVec(f, n) ==
    LET mx == MaxOf(f, n)
        ex == [j \in 1..n |-> ExpFx(f[j] - mx)]
        tot == Sum(ex, n)
    IN [j \in 1..n |-> (ex[j] * ExpOne) \div tot]

\* jax.nn.softmax(x, axis=axis) of a 2-D array, axis in {0, 1}
Softmax(x, axis) ==
    IF axis = 1
    THEN LET rows == [i \in 1..x.nr |-> SoftmaxVec(x.e[i], x.nc)]
             Cell(i, j) == rows[i][j]
         IN Mat(x.nr, x.nc, [i \in 1..x.nr, j \in 1..x.nc |-> Cell(i, j)])
    ELSE LET cols == [j \in 1..x.nc |-> SoftmaxVec([i \in 1..x.nr |-> x.e[i][j]], x.nr)]
             Cell(i, j) == cols[j][i]
         IN Mat(x.nr, x.nc, [i \in 1..x.nr, j \in 1..x.nc |-> Cell(i, j)])

\* ------------------------------------------------------------- masks
\* A mask argument: given = FALSE is mask=None.  A 1-D mask of length n has
\* ndim = 1 and is stored as one row; a scalar has ndim = 0 and one cell.
NoMask == [given |-> FALSE, ndim |-> 0, nr |-> 0, nc |-> 0, e |-> << >>]

MaskOf(ndim, nr, nc, f) ==
    [given |-> TRUE, ndim |-> ndim, nr |-> nr, nc |-> nc,
     e |-> [i \in 1..nr |-> [j \in 1..nc |-> f[i, j]]]]

\* numpy broadcasting of the mask against the score matrix
BroadcastOk(m, x) ==
    /\ (m.nr = x.nr \/ m.nr = 1 \/ x.nr = 1)
    /\ (m.nc = x.nc \/ m.nc = 1 \/ x.nc = 1)

Bigger(a, b) == IF a > b THEN a ELSE b

\* the arguments of jnp.where exchanged: jnp.where(mask, scaled_sims, -1e9)
WhereExchanged(m, x) ==
    LET Cell(i, j) ==
            IF m.e[IF m.nr = 1 THEN 1 ELSE i][IF m.nc = 1 THEN 1 ELSE j]
            THEN x.e[IF x.nr = 1 THEN 1 ELSE i][IF x.nc = 1 THEN 1 ELSE j]
            ELSE Sentinel * ScoreRes
        nr == Bigger(m.nr, x.nr)
        nc == Bigger(m.nc, x.nc)
    IN Mat(nr, nc, [i \in 1..nr, j \in 1..nc |-> Cell(i, j)])

\* jnp.where(mask, -1e9, scaled_sims)
Where(m, x) ==
    LET Cell(i, j) ==
            IF m.e[IF m.nr = 1 THEN 1 ELSE i][IF m.nc = 1 THEN 1 ELSE j]
            THEN Sentinel * ScoreRes
            ELSE x.e[IF x.nr = 1 THEN 1 ELSE i][IF x.nc = 1 THEN 1 ELSE j]
        nr == Bigger(m.nr, x.nr)
        nc == Bigger(m.nc, x.nc)
    IN Mat(nr, nc, [i \in 1..nr, j \in 1..nc |-> Cell(i, j)])

\* -------------------------------------------------------- random keys
\* nnx.Rngs(params=key): a stream with a base key and a draw counter
Rngs(seed) == [seed |-> seed, count |-> 0]

\* key = rngs.params(): the base key folded with the counter ...
RngsParams(rngs) == <<rngs.seed, rngs.count>>

\* ... and the counter advances by one
RngsAfter(rngs, draws) == [rngs EXCEPT !.count = @ + draws]

\* jax.random.uniform(key, (d_model, d_model)): a fixed function of the key
Uniform(key, d) ==
    LET Cell(i, j) == (key[1] * 7 + key[2] * 5 + i * 3 + j * 2 + i * j) % WRes
    IN Mat(d, d, [i \in 1..d, j \in 1..d |-> Cell(i, j)])

\* ------------------------------------------------------ Attention head
\* Attention.__init__: one key, three draws with that same key
AttentionInit(d_model, row_dim, col_dim, rngs) ==
    LET key == RngsParams(rngs)
    IN [cls |-> "Attention",
        W_q |-> Uniform(key, d_model),
        W_k |-> Uniform(key, d_model),
        W_v |-> Uniform(key, d_model),
        row_dim |-> row_dim,
        col_dim |-> col_dim,
        d_model |-> d_model]

\* the local variables of one run of Attention.__call__; err names the
\* exception that ended it ("none": it returned attention_scores)
Frame(err, q, k, v, sims, scaled, masked, percents, scores) ==
    [err |-> err, q |-> q, k |-> k, v |-> v, sims |-> sims, scaled_sims |-> scaled,
     masked_sims |-> masked, attention_percents |-> percents,
     attention_scores |-> scores]

\* attention_percents @ v, rounded back to the resolution of v
Aggregate(percents, v) ==
    LET Cell(i, j) ==
            Sum([t \in 1..percents.nc |-> percents.e[i][t] * v.e[t][j]], percents.nc)
                \div ExpOne
    IN Mat(percents.nr, v.nc, [i \in 1..percents.nr, j \in 1..v.nc |-> Cell(i, j)])

\* the mask applied to the similarities before they are scaled, so that the
\* sentinel is divided by sqrt(d_model) with them
AttentionCallMaskFirst(self, xq, xk, xv, mask) ==
    IF ~(MatmulOk(xq, self.W_q) /\ MatmulOk(xk, self.W_k) /\ MatmulOk(xv, self.W_v))
    THEN Frame("TypeError", NoMat, NoMat, NoMat, NoMat, NoMat, NoMat, NoMat, NoMat)
    ELSE
    LET q == Matmul(xq, self.W_q)
        k == Matmul(xk, self.W_k)
        v == Matmul(xv, self.W_v)
        kT == Swapaxes(k, self.row_dim, self.col_dim)
    IN  IF ~MatmulOk(q, kT)
        THEN Frame("TypeError", q, k, v, NoMat, NoMat, NoMat, NoMat, NoMat)
        ELSE
        LET sims == Matmul(q, kT)
            root == SqrtFx(self.d_model)
        IN  IF mask.given /\ ~BroadcastOk(mask, sims)
            THEN Frame("ValueError", q, k, v, sims, NoMat, NoMat, NoMat, NoMat)
            ELSE
            LET nr == IF mask.given THEN Bigger(mask.nr, sims.nr) ELSE sims.nr
                nc == IF mask.given THEN Bigger(mask.nc, sims.nc) ELSE sims.nc
                Cell(i, j) ==
                    IF mask.given /\ mask.e[IF mask.nr = 1 THEN 1 ELSE i]
                                           [IF mask.nc = 1 THEN 1 ELSE j]
                    THEN (Sentinel \div root) * SqrtRes * ScoreRes
                    ELSE ScaleFx(sims.e[IF sims.nr = 1 THEN 1 ELSE i]
                                       [IF sims.nc = 1 THEN 1 ELSE j], root)
                scaled == Mat(nr, nc, [i \in 1..nr, j \in 1..nc |-> Cell(i, j)])
                percents == Softmax(scaled, self.col_dim)
            IN  IF ~MatmulOk(percents, v)
                THEN Frame("TypeError", q, k, v, sims, scaled, scaled, percents, NoMat)
                ELSE Frame("none", q, k, v, sims, scaled, scaled, percents,
                           Aggregate(percents, v))

\* Attention.__call__(encodings_for_q, encodings_for_k, encodings_for_v, mask)
AttentionCall(self, xq, xk, xv, mask) ==
    IF ~(MatmulOk(xq, self.W_q) /\ MatmulOk(xk, self.W_k) /\ MatmulOk(xv, self.W_v))
    THEN Frame("TypeError", NoMat, NoMat, NoMat, NoMat, NoMat, NoMat, NoMat, NoMat)
    ELSE
    LET q == Matmul(xq, self.W_q)
        k == Matmul(xk, self.W_k)
        v == Matmul(xv, self.W_v)
        kT == Swapaxes(k, self.row_dim, self.col_dim)
    IN  IF ~MatmulOk(q, kT)
        THEN Frame("TypeError", q, k, v, NoMat, NoMat, NoMat, NoMat, NoMat)
        ELSE
        LET sims == Matmul(q, kT)
            root == SqrtFx(self.d_model)
            scaled == Mat(sims.nr, sims.nc,
                          [i \in 1..sims.nr, j \in 1..sims.nc |->
                              ScaleFx(sims.e[i][j], root)])
        IN  IF mask.given /\ ~BroadcastOk(mask, scaled)
            THEN Frame("ValueError", q, k, v, sims, scaled, NoMat, NoMat, NoMat)
            ELSE
            LET masked == IF mask.given THEN Where(mask, scaled) ELSE scaled
                percents == Softmax(masked, self.col_dim)
            IN  IF ~MatmulOk(percents, v)
                THEN Frame("TypeError", q, k, v, sims, scaled, masked, percents, NoMat)
                ELSE Frame("none", q, k, v, sims, scaled, masked, percents,
                           Aggregate(percents, v))

\* ------------------------------------------------------ SelfAttention
\* W_k drawn with a second key of the source
SelfAttentionInitTwoKeys(d_model, row_dim, col_dim, rngs) ==
    LET key == RngsParams(rngs)
    IN [cls |-> "SelfAttention",
        W_q |-> Uniform(key, d_model),
        W_k |-> Uniform(RngsParams(RngsAfter(rngs, 1)), d_model),
        W_v |-> Uniform(key, d_model),
        row_dim |-> row_dim,
        col_dim |-> col_dim,
        d_model |-> d_model]

\* SelfAttention.__init__
SelfAttentionInit(d_model, row_dim, col_dim, rngs) ==
    LET key == RngsParams(rngs)
    IN [cls |-> "SelfAttention",
        W_q |-> Uniform(key, d_model),
        W_k |-> Uniform(key, d_model),
        W_v |-> Uniform(key, d_model),
        row_dim |-> row_dim,
        col_dim |-> col_dim,
        d_model |-> d_model]

\* the similarities passed to the softmax without the division by
\* sqrt(d_model)
SelfAttentionCallUnscaled(self, x) ==
    IF ~(MatmulOk(x, self.W_q) /\ MatmulOk(x, self.W_k) /\ MatmulOk(x, self.W_v))
    THEN Frame("TypeError", NoMat, NoMat, NoMat, NoMat, NoMat, NoMat, NoMat, NoMat)
    ELSE
    LET q == Matmul(x, self.W_q)
        k == Matmul(x, self.W_k)
        v == Matmul(x, self.W_v)
        k_t == Swapaxes(k, self.row_dim, self.col_dim)
    IN  IF ~MatmulOk(q, k_t)
        THEN Frame("TypeError", q, k, v, NoMat, NoMat, NoMat, NoMat, NoMat)
        ELSE
        LET sims == Matmul(q, k_t)
            scaled == Mat(sims.nr, sims.nc,
                          [i \in 1..sims.nr, j \in 1..sims.nc |->
                              ScaleFx(sims.e[i][j], SqrtRes)])
            percents == Softmax(scaled, self.col_dim)
        IN  IF ~MatmulOk(percents, v)
            THEN Frame("TypeError", q, k, v, sims, scaled, scaled, percents, NoMat)
            ELSE Frame("none", q, k, v, sims, scaled, scaled, percents,
                       Aggregate(percents, v))

\* SelfAttention.__call__(token_encodings): no mask step, the softmax reads
\* the scaled similarities
SelfAttentionCall(self, x) ==
    IF ~(MatmulOk(x, self.W_q) /\ MatmulOk(x, self.W_k) /\ MatmulOk(x, self.W_v))
    THEN Frame("TypeError", NoMat, NoMat, NoMat, NoMat, NoMat, NoMat, NoMat, NoMat)
    ELSE
    LET q == Matmul(x, self.W_q)
        k == Matmul(x, self.W_k)
        v == Matmul(x, self.W_v)
        k_t == Swapaxes(k, self.row_dim, self.col_dim)
    IN  IF ~MatmulOk(q, k_t)
        THEN Frame("TypeError", q, k, v, NoMat, NoMat, NoMat, NoMat, NoMat)
        ELSE
        LET sims == Matmul(q, k_t)
            root == SqrtFx(self.d_model)
            scaled == Mat(sims.nr, sims.nc,
                          [i \in 1..sims.nr, j \in 1..sims.nc |->
                              ScaleFx(sims.e[i][j], root)])
            percents == Softmax(scaled, self.col_dim)
        IN  IF ~MatmulOk(percents, v)
            THEN Frame("TypeError", q, k, v, sims, scaled, scaled, percents, NoMat)
            ELSE Frame("none", q, k, v, sims, scaled, scaled, percents,
                       Aggregate(percents, v))

\* ------------------------------------------------ MaskedSelfAttention
\* MaskedSelfAttention.__init__
MaskedSelfAttentionInit(d_model, row_dim, col_dim, rngs) ==
    LET key == RngsParams(rngs)
    IN [cls |-> "MaskedSelfAttention",
        W_q |-> Uniform(key, d_model),
        W_k |-> Uniform(key, d_model),
        W_v |-> Uniform(key, d_model),
        row_dim |-> row_dim,
        col_dim |-> col_dim,
        d_model |-> d_model]

\* MaskedSelfAttention.__call__(token_encodings, mask)
MaskedSelfAttentionCall(self, x, mask) ==
    IF ~(MatmulOk(x, self.W_q) /\ MatmulOk(x, self.W_k) /\ MatmulOk(x, self.W_v))
    THEN Frame("TypeError", NoMat, NoMat, NoMat, NoMat, NoMat, NoMat, NoMat, NoMat)
    ELSE
    LET q == Matmul(x, self.W_q)
        k == Matmul(x, self.W_k)
        v == Matmul(x, self.W_v)
        kT == Swapaxes(k, self.row_dim, self.col_dim)
    IN  IF ~MatmulOk(q, kT)
        THEN Frame("TypeError", q, k, v, NoMat, NoMat, NoMat, NoMat, NoMat)
        ELSE
        LET sims == Matmul(q, kT)
            root == SqrtFx(self.d_model)
            scaled == Mat(sims.nr, sims.nc,
                          [i \in 1..sims.nr, j \in 1..sims.nc |->
                              ScaleFx(sims.e[i][j], root)])
        IN  IF mask.given /\ ~BroadcastOk(mask, scaled)
            THEN Frame("ValueError", q, k, v, sims, scaled, NoMat, NoMat, NoMat)
            ELSE
            LET masked == IF mask.given THEN Where(mask, scaled) ELSE scaled
                percents == Softmax(masked, self.col_dim)
            IN  IF ~MatmulOk(percents, v)
                THEN Frame("TypeError", q, k, v, sims, scaled, masked, percents, NoMat)
                ELSE Frame("none", q, k, v, sims, scaled, masked, percents,
                           Aggregate(percents, v))

\* -------------------------------------------------- MultiHeadAttention
\* one key drawn before the heads are built and used for every head
MultiHeadAttentionInitOneKey(d_model, row_dim, col_dim, num_heads, rngs) ==
    [cls |-> "MultiHeadAttention",
     heads |-> [h \in 1..num_heads |-> AttentionInit(d_model, row_dim, col_dim, rngs)],
     col_dim |-> col_dim]

\* the heads built last to first, so that the key of head h depends on
\* num_heads
MultiHeadAttentionInitReversed(d_model, row_dim, col_dim, num_heads, rngs) ==
    [cls |-> "MultiHeadAttention",
     heads |-> [h \in 1..num_heads |->
                   AttentionInit(d_model, row_dim, col_dim,
                                 RngsAfter(rngs, num_heads - h))],
     col_dim |-> col_dim]

\* MultiHeadAttention.__init__: num_heads heads, each drawing the next key
MultiHeadAttentionInit(d_model, row_dim, col_dim, num_heads, rngs) ==
    [cls |-> "MultiHeadAttention",
     heads |-> [h \in 1..num_heads |->
                   AttentionInit(d_model, row_dim, col_dim, RngsAfter(rngs, h - 1))],
     col_dim |-> col_dim]

\* the outputs concatenated last head first
ConcatenateReversed(outputs, axis) ==
    LET n == Len(outputs)
        one == outputs[1]
    IN IF axis = 1
       THEN LET Cell(i, j) == outputs[n - ((j - 1) \div one.nc)].e[i][((j - 1) % one.nc) + 1]
            IN Mat(one.nr, n * one.nc, [i \in 1..one.nr, j \in 1..n * one.nc |-> Cell(i, j)])
       ELSE LET Cell(i, j) == outputs[n - ((i - 1) \div one.nr)].e[((i - 1) % one.nr) + 1][j]
            IN Mat(n * one.nr, one.nc, [i \in 1..n * one.nr, j \in 1..one.nc |-> Cell(i, j)])

\* jnp.concatenate(outputs, axis): the arrays share every dimension but axis
Concatenate(outputs, axis) ==
    LET n == Len(outputs)
        one == outputs[1]
    IN IF axis = 1
       THEN LET Cell(i, j) == outputs[((j - 1) \div one.nc) + 1].e[i][((j - 1) % one.nc) + 1]
            IN Mat(one.nr, n * one.nc, [i \in 1..one.nr, j \in 1..n * one.nc |-> Cell(i, j)])
       ELSE LET Cell(i, j) == outputs[((i - 1) \div one.nr) + 1].e[((i - 1) % one.nr) + 1][j]
            IN Mat(n * one.nr, one.nc, [i \in 1..n * one.nr, j \in 1..one.nc |-> Cell(i, j)])

\* the arguments of one call of a head
Args(xq, xk, xv, mask) == [xq |-> xq, xk |-> xk, xv |-> xv, mask |-> mask]

\* the heads a call reaches: every one in turn up to the first that raises
Reached(frames) ==
    LET failed == {h \in 1..Len(frames) : frames[h].err /= "none"}
    IN IF failed = {} THEN Len(frames)
       ELSE CHOOSE h \in failed : \A g \in failed : h <= g

\* the outputs of the heads that returned are concatenated; the exceptions
\* of the others are dropped
GatherReturned(self, frames, invoked) ==
    LET kept == SelectSeq([h \in 1..Len(frames) |-> frames[h]],
                          LAMBDA f : f.err = "none")
        outputs == [h \in 1..Len(kept) |-> kept[h].attention_scores]
    IN IF Len(kept) = 0
       THEN [err |-> "ValueError", outputs |-> outputs, result |-> NoMat,
             invoked |-> invoked]
       ELSE [err |-> "none", outputs |-> outputs,
             result |-> Concatenate(outputs, self.col_dim), invoked |-> invoked]

\* the outputs are concatenated in the order the heads were invoked in
GatherAsInvoked(self, frames, invoked) ==
    LET failed == {h \in 1..Len(frames) : frames[h].err /= "none"}
        outputs == [i \in 1..Len(frames) |-> frames[invoked[i].head].attention_scores]
    IN IF failed /= {}
       THEN [err |-> frames[Reached(frames)].err, outputs |-> << >>, result |-> NoMat,
             invoked |-> invoked]
       ELSE IF Len(frames) = 0
       THEN [err |-> "ValueError", outputs |-> outputs, result |-> NoMat,
             invoked |-> invoked]
       ELSE [err |-> "none", outputs |-> outputs,
             result |-> Concatenate(outputs, self.col_dim), invoked |-> invoked]

\* what a call makes of its heads' runs: the first head that raises ends the
\* call with its exception; jnp.concatenate of an empty list raises
\* ValueError; otherwise the outputs are concatenated by position in
\* self.heads.  invoked lists the head invocations made, in order.
Gather(self, frames, invoked) ==
    LET failed == {h \in 1..Len(frames) : frames[h].err /= "none"}
        outputs == [h \in 1..Len(frames) |-> frames[h].attention_scores]
    IN IF failed /= {}
       THEN [err |-> frames[Reached(frames)].err, outputs |-> << >>, result |-> NoMat,
             invoked |-> invoked]
       ELSE IF Len(frames) = 0
       THEN [err |-> "ValueError", outputs |-> outputs, result |-> NoMat,
             invoked |-> invoked]
       ELSE [err |-> "none", outputs |-> outputs,
             result |-> Concatenate(outputs, self.col_dim), invoked |-> invoked]

\* the heads called with the query and key sources exchanged
MultiHeadAttentionCallExchanged(self, xq, xk, xv) ==
    LET frames == [h \in 1..Len(self.heads) |->
                      AttentionCall(self.heads[h], xk, xq, xv, NoMask)]
    IN Gather(self, frames,
              [h \in 1..Reached(frames) |->
                  [head |-> h, args |-> Args(xk, xq, xv, NoMask)]])

\* MultiHeadAttention.__call__: every head in turn, each with the three
\* inputs and no mask, then the concatenation
MultiHeadAttentionCall(self, xq, xk, xv) ==
    LET frames == [h \in 1..Len(self.heads) |->
                      AttentionCall(self.heads[h], xq, xk, xv, NoMask)]
    IN Gather(self, frames,
              [h \in 1..Reached(frames) |->
                  [head |-> h, args |-> Args(xq, xk, xv, NoMask)]])

\* ------------------------------------------------------------- state
VARIABLES
    rngs,     \* the caller's random source, shared by the constructions it is passed to
    obj,      \* the module instance under test: an Attention or a MultiHeadAttention
    last,     \* the most recent call on obj: its arguments and what it produced
    pinned,   \* an earlier call on obj, kept for comparison with later ones
    made,     \* the state the random source was in when obj was built from it
    twin      \* an instance built earlier, with the source state it was built from

vars == <<rngs, obj, last, pinned, made, twin>>

NoObj == [cls |-> "none"]

NoArgs == [xq |-> NoMat, xk |-> NoMat, xv |-> NoMat, mask |-> NoMask]

NoCall == [op |-> "none", args |-> NoArgs, ret |-> [err |-> "none"]]

NoMade == [seed |-> -1, count |-> -1]

NoTwin == [obj |-> NoObj, made |-> NoMade]

\* the kept call, and whether a call with other arguments has followed it
NoPin == [call |-> NoCall, later |-> FALSE]

Followed(pin, a) ==
    IF pin.call.op /= "none" /\ pin.call.args /= a THEN [pin EXCEPT !.later = TRUE] ELSE pin

\* ------------------------------------------------------------ inputs
Seeds == 0..MaxSeed
Dims == 1..MaxD
Lens == 1..MaxSeq
AxisPairs == {<<0, 1>>, <<1, 0>>}

\* an input array of small integers, fixed by its role, a seed and its shape
Pool == <<1, 2, -1, 0, 2, 1, -2>>

Gen(role, seed, n, f) ==
    LET Cell(i, j) == Pool[(((i - 1) * f + (j - 1) + role + 3 * seed) % Len(Pool)) + 1]
    IN Mat(n, f, [i \in 1..n, j \in 1..f |-> Cell(i, j)])

\* mask = jnp.tril(jnp.ones((n, n))) == 0, and two other patterns
Causal(nr, nc) == MaskOf(2, nr, nc, [i \in 1..nr, j \in 1..nc |-> j > i])

AllTrue(nr, nc) == MaskOf(2, nr, nc, [i \in 1..nr, j \in 1..nc |-> TRUE])

OnlyLast(nr, nc) == MaskOf(2, nr, nc, [i \in 1..nr, j \in 1..nc |-> j /= nc])

\* inputs of the documented shapes: one array three times (self-attention)
\* or three arrays with independent query and key lengths
SelfInputs(d) ==
    {Args(Gen(0, s, n, d), Gen(0, s, n, d), Gen(0, s, n, d), NoMask) :
        s \in 0..MaxInput, n \in Lens}

CrossInputs(d) ==
    {Args(Gen(1, s, nn[1], d), Gen(2, s, nn[2], d), Gen(3, s, nn[2], d), NoMask) :
        s \in 0..MaxInput, nn \in Lens \X Lens}

\* inputs that break the documented shapes: key and value lengths differ,
\* or one input has a feature dimension other than d
LengthDefects(d) ==
    {Args(Gen(1, 0, nn[1], d), Gen(2, 0, nn[2], d), Gen(3, 0, nn[3], d), NoMask) :
        nn \in {t \in Lens \X Lens \X Lens : t[2] /= t[3]}}

FeatureDefects(d) ==
    {Args(Gen(1, 0, n, IF w = "q" THEN d + 1 ELSE d),
          Gen(2, 0, n, IF w = "k" THEN d + 1 ELSE d),
          Gen(3, 0, n, IF w = "v" THEN d + 1 ELSE d), NoMask) :
        n \in Lens, w \in {"q", "k", "v"}}

\* the masks tried with given inputs: none, or a pattern of the shape
\* (n_q, n_k) or (n_q, n_v)
MasksFor(a) ==
    {NoMask, Causal(a.xq.nr, a.xk.nr), AllTrue(a.xq.nr, a.xk.nr),
     OnlyLast(a.xq.nr, a.xk.nr), AllTrue(a.xq.nr, a.xv.nr)}

Unmasked(d) == SelfInputs(d) \cup CrossInputs(d) \cup LengthDefects(d) \cup FeatureDefects(d)

\* masks of other shapes than (n_q, n_k): one row (1, n_k), one column
\* (n_q, 1), a 1-D mask of length n_k, a scalar, and one row and one column
\* too many
OtherShapes(nq, nk) ==
    {MaskOf(2, 1, nk, [i \in 1..1, j \in 1..nk |-> j > 1]),
     MaskOf(2, nq, 1, [i \in 1..nq, j \in 1..1 |-> i > 1]),
     MaskOf(1, 1, nk, [i \in 1..1, j \in 1..nk |-> j > 1]),
     MaskOf(0, 1, 1, [i \in 1..1, j \in 1..1 |-> TRUE]),
     AllTrue(nq + 1, nk + 1)}

MaskDefects(d) ==
    UNION {{Args(Gen(1, 0, nn[1], d), Gen(2, 0, nn[2], d), Gen(3, 0, nn[2], d), m) :
               m \in OtherShapes(nn[1], nn[2])} : nn \in Lens \X Lens}

HeadArgs(d) ==
    UNION {{[a EXCEPT !.mask = m] : m \in MasksFor(a)} : a \in Unmasked(d)}
        \cup MaskDefects(d)

\* ----------------------------------------------------------- actions
Init ==
    /\ rngs \in {Rngs(s) : s \in Seeds}
    /\ obj = NoObj
    /\ last = NoCall
    /\ pinned = NoPin
    /\ made = NoMade
    /\ twin = NoTwin

\* rngs = nnx.Rngs(params=key): the caller makes a fresh random source
NewRngs ==
    /\ last.op = "none"
    /\ \E s \in Seeds : rngs' = Rngs(s)
    /\ UNCHANGED <<obj, last, pinned, made, twin>>

\* the hyperparameters <<d_model, row_dim, col_dim>> the notebooks document:
\* d_model >= 1 and the two axes of a 2-D array in either order
Params == {<<d, ax[1], ax[2]>> : d \in Dims, ax \in AxisPairs}

\* obj = Attention(d_model, row_dim, col_dim, rngs=rngs), hyperparameters from P
ConstructAttentionWith(P) ==
    /\ last.op = "none"
    /\ rngs.count + 1 <= MaxDraws
    /\ \E p \in P : obj' = AttentionInit(p[1], p[2], p[3], rngs)
    /\ rngs' = RngsAfter(rngs, 1)
    /\ made' = rngs
    /\ last' = NoCall
    /\ pinned' = NoPin
    /\ UNCHANGED twin

ConstructAttention == ConstructAttentionWith(Params)

\* obj = MultiHeadAttention(d_model, row_dim, col_dim, num_heads, rngs=rngs),
\* hyperparameters from P
ConstructMultiHeadWith(P) ==
    \E p \in P, nh \in 0..MaxHeads :
        /\ last.op = "none"
        /\ rngs.count + nh <= MaxDraws
        /\ obj' = MultiHeadAttentionInit(p[1], p[2], p[3], nh, rngs)
        /\ rngs' = RngsAfter(rngs, nh)
        /\ made' = rngs
        /\ last' = NoCall
        /\ pinned' = NoPin
        /\ UNCHANGED twin

ConstructMultiHead == ConstructMultiHeadWith(Params)

\* a call that stores the transpose of W_v back into the head
CallAttentionWithWriting(S) ==
    /\ obj.cls = "Attention"
    /\ last.op = "none"
    /\ \E a \in S :
          /\ last' = [op |-> "head", args |-> a,
                      ret |-> AttentionCall(obj, a.xq, a.xk, a.xv, a.mask)]
          /\ pinned' = Followed(pinned, a)
    /\ obj' = [obj EXCEPT !.W_v = Swapaxes(@, 0, 1)]
    /\ UNCHANGED <<rngs, made, twin>>

\* obj(encodings_for_q, encodings_for_k, encodings_for_v, mask) on a head,
\* with arguments from S
CallAttentionWith(S) ==
    /\ obj.cls = "Attention"
    /\ last.op = "none"
    /\ \E a \in S :
          /\ last' = [op |-> "head", args |-> a,
                      ret |-> AttentionCall(obj, a.xq, a.xk, a.xv, a.mask)]
          /\ pinned' = Followed(pinned, a)
    /\ UNCHANGED <<rngs, obj, made, twin>>

CallAttention == CallAttentionWith(HeadArgs(obj.d_model))

\* the d_model the heads of a MultiHeadAttention were built with; the caller
\* of an instance without heads passes inputs of any width
WidthsOf(self) == IF Len(self.heads) = 0 THEN Dims ELSE {self.heads[1].d_model}

\* obj(encodings_for_q, encodings_for_k, encodings_for_v) on a
\* MultiHeadAttention, with arguments from S[d]
CallMultiHeadWith(S) ==
    /\ obj.cls = "MultiHeadAttention"
    /\ last.op = "none"
    /\ \E d \in WidthsOf(obj) : \E a \in S[d] :
          /\ last' = [op |-> "mha", args |-> a,
                      ret |-> MultiHeadAttentionCall(obj, a.xq, a.xk, a.xv)]
          /\ pinned' = Followed(pinned, a)
    /\ UNCHANGED <<rngs, obj, made, twin>>

CallMultiHead == CallMultiHeadWith([d \in Dims |-> Unmasked(d)])

\* the caller is done with the result of the call: it holds one result at a
\* time, and builds or calls again only after it has let the result go
Discard ==
    /\ last.op \notin {"none", "running"}
    /\ last' = NoCall
    /\ UNCHANGED <<rngs, obj, pinned, made, twin>>

Next ==
    \/ NewRngs
    \/ ConstructAttention
    \/ ConstructMultiHead
    \/ CallAttention
    \/ CallMultiHead
    \/ Discard

Spec == Init /\ [][Next]_vars

\* ------------------------------------------------------ repeated calls
\* One random source, instances built from it, and a harness that keeps the
\* result of the notebooks' dry run (one full-length array as all three
\* sources, without a mask or with the causal mask) while further calls with
\* inputs of the documented shapes follow.
Documented(d) == SelfInputs(d) \cup CrossInputs(d)

DocumentedMasked(d) ==
    UNION {{a, [a EXCEPT !.mask = Causal(a.xq.nr, a.xk.nr)]} : a \in Documented(d)}

IsDryRun(c) ==
    /\ c.args.xq.nr = MaxSeq
    /\ c.args.xk = c.args.xq
    /\ c.args.xv = c.args.xq
    /\ c.args.xq = Gen(0, 0, MaxSeq, c.args.xq.nc)

RepeatAttention == CallAttentionWith(DocumentedMasked(obj.d_model))

RepeatMultiHead == CallMultiHeadWith([d \in Dims |-> Documented(d)])

Pin ==
    /\ last.op /= "none"
    /\ IsDryRun(last)
    /\ pinned = NoPin
    /\ pinned' = [call |-> last, later |-> FALSE]
    /\ UNCHANGED <<rngs, obj, last, made, twin>>

NextRepeat ==
    \/ ConstructAttention
    \/ ConstructMultiHead
    \/ RepeatAttention
    \/ RepeatMultiHead
    \/ Discard
    \/ Pin

SpecRepeat == Init /\ [][NextRepeat]_vars

\* ------------------------------------------------------- constructors
\* The constructors over everything their signatures take: d_model = 0
\* (jax.random.uniform of shape (0, 0) is an empty array) and row_dim and
\* col_dim any two axes of a 2-D array, equal or not.
AnyParams == {<<d, r, c>> : d \in 0..MaxD, r \in {0, 1}, c \in {0, 1}}

BuildAttention == ConstructAttentionWith(AnyParams)

BuildMultiHead == ConstructMultiHeadWith(AnyParams)

NextBuild ==
    \/ NewRngs
    \/ BuildAttention
    \/ BuildMultiHead

SpecBuild == Init /\ [][NextBuild]_vars

\* ------------------------------------------------- the three notebooks
\* Each notebook seeds a key, makes a fresh random source of it, builds its
\* head with the default axes from that source and runs the head on one
\* array, the masked notebook and the multi-head notebook with the causal
\* mask as well.  A head built by one notebook is kept beside the head of
\* the next.
Defaults == {<<d, 0, 1>> : d \in Dims}

Fresh == rngs.count = 0

HeadClasses == {"Attention", "SelfAttention", "MaskedSelfAttention"}

\* obj = SelfAttention(d_model, row_dim, col_dim, rngs=rngs)
ConstructSelfAttentionWith(P) ==
    /\ last.op = "none"
    /\ rngs.count + 1 <= MaxDraws
    /\ \E p \in P : obj' = SelfAttentionInit(p[1], p[2], p[3], rngs)
    /\ rngs' = RngsAfter(rngs, 1)
    /\ made' = rngs
    /\ last' = NoCall
    /\ pinned' = NoPin
    /\ UNCHANGED twin

\* obj = MaskedSelfAttention(d_model, row_dim, col_dim, rngs=rngs)
ConstructMaskedSelfAttentionWith(P) ==
    /\ last.op = "none"
    /\ rngs.count + 1 <= MaxDraws
    /\ \E p \in P : obj' = MaskedSelfAttentionInit(p[1], p[2], p[3], rngs)
    /\ rngs' = RngsAfter(rngs, 1)
    /\ made' = rngs
    /\ last' = NoCall
    /\ pinned' = NoPin
    /\ UNCHANGED twin

FreshAttention == Fresh /\ ConstructAttentionWith(Defaults)

FreshSelfAttention == Fresh /\ ConstructSelfAttentionWith(Defaults)

FreshMaskedSelfAttention == Fresh /\ ConstructMaskedSelfAttentionWith(Defaults)

\* the notebooks' input: one array as every source, without a mask or with
\* a mask, the causal one among them
DryRuns(d) == {Args(Gen(0, 0, n, d), Gen(0, 0, n, d), Gen(0, 0, n, d), NoMask) : n \in Lens}

DryRunsMasked(d) ==
    UNION {{[a EXCEPT !.mask = m] :
               m \in MasksFor(a) \cup OtherShapes(a.xq.nr, a.xk.nr)} : a \in DryRuns(d)}

DryRunAttention == CallAttentionWith(DryRunsMasked(obj.d_model))

\* obj(token_encodings) on a SelfAttention
CallSelfAttention ==
    /\ obj.cls = "SelfAttention"
    /\ last.op = "none"
    /\ \E a \in DryRuns(obj.d_model) :
          last' = [op |-> "head", args |-> a, ret |-> SelfAttentionCall(obj, a.xq)]
    /\ UNCHANGED <<rngs, obj, pinned, made, twin>>

\* obj(token_encodings, mask) on a MaskedSelfAttention
CallMaskedSelfAttention ==
    /\ obj.cls = "MaskedSelfAttention"
    /\ last.op = "none"
    /\ \E a \in DryRunsMasked(obj.d_model) :
          last' = [op |-> "head", args |-> a,
                   ret |-> MaskedSelfAttentionCall(obj, a.xq, a.mask)]
    /\ UNCHANGED <<rngs, obj, pinned, made, twin>>

\* the head just built is kept while the next notebook builds its own
KeepTwin ==
    /\ last.op = "none"
    /\ obj.cls \in HeadClasses
    /\ twin = NoTwin
    /\ twin' = [obj |-> obj, made |-> made]
    /\ UNCHANGED <<rngs, obj, last, pinned, made>>

NextTwin ==
    \/ NewRngs
    \/ FreshAttention
    \/ FreshSelfAttention
    \/ FreshMaskedSelfAttention
    \/ DryRunAttention
    \/ CallSelfAttention
    \/ CallMaskedSelfAttention
    \/ KeepTwin
    \/ Discard

SpecTwin == Init /\ [][NextTwin]_vars

\* --------------------------------------------- heads run in any order
\* One MultiHeadAttention call taken apart: the call starts, the heads run
\* and finish one at a time in any order, each on the inputs of the call,
\* and when all have finished their outputs are gathered by position in
\* self.heads.
Unfinished == Frame("unfinished", NoMat, NoMat, NoMat, NoMat, NoMat, NoMat, NoMat, NoMat)

OrderInputs(d) ==
    {a \in CrossInputs(d) : a.xq = Gen(1, 0, a.xq.nr, d)} \cup FeatureDefects(d)

BeginMultiHead ==
    /\ obj.cls = "MultiHeadAttention"
    /\ last.op = "none"
    /\ \E d \in WidthsOf(obj) : \E a \in OrderInputs(d) :
          last' = [op |-> "running", args |-> a,
                   ret |-> [err |-> "none",
                            frames |-> [h \in 1..Len(obj.heads) |-> Unfinished],
                            order |-> << >>]]
    /\ UNCHANGED <<rngs, obj, pinned, made, twin>>

FinishHead ==
    /\ last.op = "running"
    /\ \E h \in 1..Len(obj.heads) :
          /\ last.ret.frames[h] = Unfinished
          /\ last' = [last EXCEPT
                         !.ret.frames[h] =
                             AttentionCall(obj.heads[h], last.args.xq, last.args.xk,
                                           last.args.xv, NoMask),
                         !.ret.order = Append(@, h)]
    /\ UNCHANGED <<rngs, obj, pinned, made, twin>>

Join ==
    /\ last.op = "running"
    /\ Len(last.ret.order) = Len(obj.heads)
    /\ last' = [op |-> "mha", args |-> last.args,
                ret |-> Gather(obj, last.ret.frames,
                               [i \in 1..Len(obj.heads) |->
                                   [head |-> last.ret.order[i],
                                    args |-> Args(last.args.xq, last.args.xk,
                                                  last.args.xv, NoMask)]])]
    /\ UNCHANGED <<rngs, obj, pinned, made, twin>>

NextOrder ==
    \/ ConstructMultiHead
    \/ BeginMultiHead
    \/ FinishHead
    \/ Join
    \/ Discard

SpecOrder == Init /\ [][NextOrder]_vars

\* ------------------------------------------------ the multi-head test
\* The test cells of the multi-head notebook: an Attention, a
\* MultiHeadAttention with one head and one with two, each built with the
\* default axes from a fresh source of the seeded key and called on the same
\* inputs.  An instance built earlier is kept beside the next.
FreshMultiHead == Fresh /\ ConstructMultiHeadWith(Defaults)

KeepMultiHead ==
    /\ last.op = "none"
    /\ obj.cls = "MultiHeadAttention"
    /\ twin = NoTwin
    /\ twin' = [obj |-> obj, made |-> made]
    /\ UNCHANGED <<rngs, obj, last, pinned, made>>

TestMultiHead == CallMultiHeadWith([d \in Dims |-> OrderInputs(d)])

NextTest ==
    \/ NewRngs
    \/ FreshAttention
    \/ FreshMultiHead
    \/ KeepTwin
    \/ KeepMultiHead
    \/ TestMultiHead
    \/ Discard

SpecTest == Init /\ [][NextTest]_vars

\* -------------------------------------------------------- properties
HeadCalled == last.op = "head"

HeadReturned == last.op = "head" /\ last.ret.err = "none"

MultiHeadCalled == last.op = "mha"

MultiHeadReturned == last.op = "mha" /\ last.ret.err = "none"

\* the inputs have the documented shapes (n_q, d), (n_k, d), (n_k, d)
ShapesOk(a, d) ==
    /\ a.xq.nc = d /\ a.xk.nc = d /\ a.xv.nc = d
    /\ a.xk.nr = a.xv.nr

\* no mask, or a 2-D mask of the documented shape (n_q, n_k)
MaskOk(a) ==
    ~a.mask.given \/ (a.mask.ndim = 2 /\ a.mask.nr = a.xq.nr /\ a.mask.nc = a.xk.nr)

\* block i of k equal blocks of m along axis
Block(m, i, k, axis) ==
    IF axis = 1
    THEN LET w == m.nc \div k
         IN Mat(m.nr, w, [r \in 1..m.nr, c \in 1..w |-> m.e[r][(i - 1) * w + c]])
    ELSE LET w == m.nr \div k
         IN Mat(w, m.nc, [r \in 1..w, c \in 1..m.nc |-> m.e[(i - 1) * w + r][c]])

\* C1: a MultiHeadAttention with one head returns from a call exactly what
\* its single head returns for the same three inputs without a mask (the same
\* array, or the same exception): the concatenation adds nothing.
C1_OneHeadIsItsHead ==
    (MultiHeadCalled /\ Len(obj.heads) = 1) =>
        LET f == AttentionCall(obj.heads[1], last.args.xq, last.args.xk,
                               last.args.xv, NoMask)
        IN /\ last.ret.err = f.err
           /\ f.err = "none" => last.ret.result = f.attention_scores

\* C1 witness: a one-head instance returned an array for cross-attention
\* inputs whose query and key lengths differ
C1_Witness ==
    /\ MultiHeadReturned
    /\ Len(obj.heads) = 1
    /\ last.args.xq.nr /= last.args.xk.nr
    /\ last.ret.result.nr = last.args.xq.nr

\* C2: the result of a call on k heads is the concatenation of the heads'
\* outputs in construction order: block i of the result along col_dim is
\* the output of the i-th constructed head, for every i in 1..k.
C2_BlocksInConstructionOrder ==
    MultiHeadReturned =>
        \A i \in 1..Len(obj.heads) :
            Block(last.ret.result, i, Len(obj.heads), obj.col_dim)
                = AttentionCall(obj.heads[i], last.args.xq, last.args.xk,
                                last.args.xv, NoMask).attention_scores

\* C2 witness: two heads whose outputs differ were concatenated
C2_Witness ==
    /\ MultiHeadReturned
    /\ Len(obj.heads) = 2
    /\ last.ret.outputs[1] /= last.ret.outputs[2]

Abs(x) == IF x < 0 THEN -x ELSE x

IsSelf(a) == a.xk = a.xq /\ a.xv = a.xq

\* the key positions row i of the mask leaves open
Open(m, i) == {j \in 1..m.nc : ~m.e[i][j]}

\* C3: for row_dim /= col_dim, d >= 1, num_heads >= 1 and inputs of shapes
\* (n_q, d), (n_k, d), (n_k, d), a MultiHeadAttention call returns an array
\* of shape (n_q, num_heads * d) and a head's call one of shape (n_q, d).
C3_ClaimedShapes ==
    /\ (MultiHeadCalled /\ Len(obj.heads) >= 1
            /\ ShapesOk(last.args, obj.heads[1].d_model)) =>
          /\ last.ret.err = "none"
          /\ last.ret.result.nr = last.args.xq.nr
          /\ last.ret.result.nc = Len(obj.heads) * obj.heads[1].d_model
    /\ (HeadCalled /\ ShapesOk(last.args, obj.d_model) /\ MaskOk(last.args)) =>
          /\ last.ret.err = "none"
          /\ last.ret.attention_scores.nr = last.args.xq.nr
          /\ last.ret.attention_scores.nc = obj.d_model

\* C4: for inputs of the documented shapes and either axis configuration,
\* every query row of attention_percents sums to 1 (up to rounding) and,
\* with a mask, a masked position of a row that has an open position has
\* weight 0.
C4_ClaimedRowStochastic ==
    (HeadReturned /\ ShapesOk(last.args, obj.d_model) /\ MaskOk(last.args)) =>
        LET p == last.ret.attention_percents
            m == last.args.mask
        IN \A i \in 1..p.nr :
              /\ Abs(Sum(p.e[i], p.nc) - ExpOne) <= p.nc
              /\ m.given =>
                    \A j \in 1..p.nc :
                        (m.e[i][j] /\ Open(m, i) /= {}) => p.e[i][j] = 0

\* C5: on a self-attention call with the causal mask, the attention weight
\* at (i, j) is zero for every j > i, so output row i is aggregated from
\* value rows 1..i only.
C5_CausalWeightsZero ==
    (HeadReturned /\ IsSelf(last.args)
        /\ last.args.mask = Causal(last.args.xq.nr, last.args.xq.nr)) =>
        LET p == last.ret.attention_percents
            v == last.ret.v
            out == last.ret.attention_scores
        IN /\ \A i \in 1..p.nr : \A j \in 1..p.nc : j > i => p.e[i][j] = 0
           /\ \A i \in 1..out.nr : \A c \in 1..out.nc :
                 out.e[i][c]
                     = Sum([j \in 1..i |-> p.e[i][j] * v.e[j][c]], i) \div ExpOne

\* C5 witness: a causal self-attention call of length at least 2 returned,
\* and without the mask the later key would have outweighed the first
C5_Witness ==
    /\ HeadReturned
    /\ IsSelf(last.args)
    /\ last.args.xq.nr >= 2
    /\ last.args.mask = Causal(last.args.xq.nr, last.args.xq.nr)
    /\ last.ret.scaled_sims.e[1][2] > last.ret.scaled_sims.e[1][1]
    /\ last.ret.attention_percents.e[2][1] > 0

\* C6: when the mask leaves exactly one key position j open for query row i,
\* output row i equals row j of the projected value matrix V exactly.
C6_ClaimedOneOpenKey ==
    (HeadReturned /\ last.args.mask.given
        /\ ShapesOk(last.args, obj.d_model) /\ MaskOk(last.args)) =>
        LET m == last.args.mask
            v == last.ret.v
            out == last.ret.attention_scores
        IN \A i \in 1..m.nr : \A j \in 1..m.nc :
              Open(m, i) = {j} => out.e[i] = v.e[j]

\* C7: when the mask is true at every key position of query row i, the call
\* returns, every score of the row is the sentinel, every weight of the row
\* is 1/n_k and output row i is the mean of the rows of V.
C7_ClaimedFullyMaskedRow ==
    (HeadCalled /\ last.args.mask.given
        /\ ShapesOk(last.args, obj.d_model) /\ MaskOk(last.args)) =>
        /\ last.ret.err = "none"
        /\ LET m == last.args.mask
               s == last.ret.masked_sims
               p == last.ret.attention_percents
               v == last.ret.v
               out == last.ret.attention_scores
               nk == last.args.xk.nr
           IN \A i \in 1..m.nr :
                 Open(m, i) = {} =>
                    /\ \A j \in 1..nk : s.e[i][j] = Sentinel * ScoreRes
                    /\ \A j \in 1..nk : p.e[i][j] = ExpOne \div nk
                    /\ \A c \in 1..out.nc :
                          out.e[i][c]
                              = ((ExpOne \div nk)
                                    * Sum([j \in 1..nk |-> v.e[j][c]], nk)) \div ExpOne

\* C8: two calls on the same instance with identical inputs and mask return
\* identical outputs, whatever calls happened in between.
C8_SameInputsSameOutput ==
    (pinned.call.op /= "none" /\ last.op = pinned.call.op
        /\ last.args = pinned.call.args) =>
        last.ret = pinned.call.ret

\* C8 witness: the kept call returned an array, a call with other arguments
\* followed it, and the kept call has been made again
C8_Witness ==
    /\ pinned.call.op = "head"
    /\ pinned.call.ret.err = "none"
    /\ pinned.later
    /\ last.op = "head"
    /\ last.args = pinned.call.args

\* C9: a call, whether it returns or raises, writes no state of the
\* instance: the head collection and every head's W_q, W_k, W_v, d_model,
\* row_dim and col_dim are after the call what they were before it, and the
\* caller's random source is not drawn from.
C9_CallsWriteNothing ==
    [][(last.op = "none" /\ last'.op /= "none") => (obj' = obj /\ rngs' = rngs)]_vars

\* C9 witness: a call on an instance with two heads raised
C9_Witness ==
    /\ MultiHeadCalled
    /\ Len(obj.heads) = 2
    /\ last.ret.err /= "none"

\* C10: a head's call raises a shape error whenever the key and value
\* sources differ in length or an input's feature dimension is not d.
C10_ClaimedShapeErrors ==
    (HeadCalled /\ (\/ last.args.xk.nr /= last.args.xv.nr
                    \/ last.args.xq.nc /= obj.d_model
                    \/ last.args.xk.nc /= obj.d_model
                    \/ last.args.xv.nc /= obj.d_model)) =>
        last.ret.err \in {"TypeError", "ValueError"}

\* C11: a head's call raises a shape error whenever a mask is given whose
\* shape is not exactly (n_q, n_k): a scalar, a (1, n_k), a (n_q, 1) or a
\* 1-D mask of length n_k is never accepted.
C11_ClaimedMaskShapeErrors ==
    (HeadCalled /\ last.args.mask.given /\ ~MaskOk(last.args)) =>
        last.ret.err \in {"TypeError", "ValueError"}

\* C12: no MultiHeadAttention instance with an empty head collection exists:
\* a construction with num_heads = 0 fails, so every instance has a head.
C12_ClaimedNoEmptyHeadSet ==
    obj.cls = "MultiHeadAttention" => Len(obj.heads) >= 1

\* C13: every constructed head satisfies d >= 1 and row_dim /= col_dim: a
\* construction with other hyperparameters fails.
C13_ClaimedHyperparametersChecked ==
    /\ obj.cls = "Attention" => (obj.d_model >= 1 /\ obj.row_dim /= obj.col_dim)
    /\ obj.cls = "MultiHeadAttention" =>
          \A h \in 1..Len(obj.heads) :
              obj.heads[h].d_model >= 1 /\ obj.heads[h].row_dim /= obj.heads[h].col_dim

\* C14: a MultiHeadAttention call has no partial failure: it returns the
\* concatenation of the outputs of all its heads or it raises and returns
\* nothing, and when a head raises, the call raises that head's exception.
C14_AllOrNothing ==
    MultiHeadCalled =>
        LET f == [h \in 1..Len(obj.heads) |->
                     AttentionCall(obj.heads[h], last.args.xq, last.args.xk,
                                   last.args.xv, NoMask)]
            k == Len(obj.heads)
        IN /\ last.ret.err = "none" =>
                 /\ k >= 1
                 /\ Len(last.ret.outputs) = k
                 /\ \A h \in 1..k :
                        /\ f[h].err = "none"
                        /\ Block(last.ret.result, h, k, obj.col_dim)
                               = f[h].attention_scores
           /\ last.ret.err /= "none" =>
                 /\ last.ret.result = NoMat
                 /\ last.ret.outputs = << >>
           /\ \A h \in 1..k :
                 f[h].err /= "none" =>
                     /\ last.ret.err /= "none"
                     /\ \E g \in 1..h : last.ret.err = f[g].err

\* C14 witness: a call on two heads raised the TypeError of its heads, for
\* an input whose feature dimension is not d
C14_Witness ==
    /\ MultiHeadCalled
    /\ Len(obj.heads) = 2
    /\ last.args.xq.nc /= obj.heads[1].d_model
    /\ last.ret.err = "TypeError"
    /\ last.ret.result = NoMat

\* the weights of a head
Weights(h) == <<h.W_q, h.W_k, h.W_v>>

\* C15: the k heads of a MultiHeadAttention built from one random source
\* are k separate heads: head i is initialised from the i-th key drawn from
\* the source during the construction, no two heads from the same key, and
\* for i /= j the weights of head i differ from those of head j.
C15_HeadsFromSuccessiveKeys ==
    obj.cls = "MultiHeadAttention" =>
        \A i \in 1..Len(obj.heads) :
            /\ Weights(obj.heads[i])
                   = Weights(AttentionInit(obj.heads[i].d_model, obj.heads[i].row_dim,
                                           obj.heads[i].col_dim,
                                           [seed |-> made.seed,
                                            count |-> made.count + i - 1]))
            /\ \A j \in 1..Len(obj.heads) :
                  i /= j => Weights(obj.heads[i]) /= Weights(obj.heads[j])

\* C15 witness: two heads with different weights were built, and the source
\* has been drawn from twice
C15_Witness ==
    /\ obj.cls = "MultiHeadAttention"
    /\ Len(obj.heads) = 2
    /\ rngs = [seed |-> made.seed, count |-> made.count + 2]
    /\ obj.heads[1].W_q /= obj.heads[2].W_q

\* C16: in a head the three projection matrices come from three draws of
\* their own, none fixed by another: no head holds one array three times.
C16_ClaimedSeparateDraws ==
    obj.cls = "Attention" =>
        (obj.W_q /= obj.W_k /\ obj.W_k /= obj.W_v /\ obj.W_q /= obj.W_v)

\* what a head of either class returns for the arguments a
CallOf(self, a) ==
    IF self.cls = "Attention" THEN AttentionCall(self, a.xq, a.xk, a.xv, a.mask)
    ELSE IF self.cls = "SelfAttention" THEN SelfAttentionCall(self, a.xq)
    ELSE MaskedSelfAttentionCall(self, a.xq, a.mask)

\* C17: two heads, of whichever of the three classes, built with the same d
\* from fresh random sources of the same seed have the same W_q, W_k and
\* W_v, each of shape (d, d); two such heads of one class and one axis
\* configuration return the same for the same arguments.
C17_SeededDeterminism ==
    (/\ obj.cls \in HeadClasses /\ twin.obj.cls \in HeadClasses
     /\ made.count = 0 /\ twin.made.count = 0
     /\ made.seed = twin.made.seed
     /\ obj.d_model = twin.obj.d_model) =>
        /\ Weights(obj) = Weights(twin.obj)
        /\ \A w \in {obj.W_q, obj.W_k, obj.W_v} :
              w.nr = obj.d_model /\ w.nc = obj.d_model
        /\ (/\ HeadCalled /\ obj.cls = twin.obj.cls
            /\ obj.row_dim = twin.obj.row_dim /\ obj.col_dim = twin.obj.col_dim) =>
               last.ret = CallOf(twin.obj, last.args)

\* C17 witness: a head of another class than the kept one, built later from
\* a new source of the same seed, has been called and returned
C17_Witness ==
    /\ HeadReturned
    /\ twin.obj.cls \in HeadClasses
    /\ obj.cls /= twin.obj.cls
    /\ made = twin.made
    /\ made.count = 0
    /\ obj.d_model = twin.obj.d_model
    /\ obj.d_model >= 2

\* the invocation of head h with the three inputs of the call and no mask
Invocation(h) ==
    [head |-> h, args |-> Args(last.args.xq, last.args.xk, last.args.xv, NoMask)]

\* C18 as stated: every call on a MultiHeadAttention, whether it returns or
\* raises, invokes every head exactly once, in turn, with the three inputs
\* and no mask.
C18_ClaimedEveryHeadInvoked ==
    MultiHeadCalled =>
        last.ret.invoked = [h \in 1..Len(obj.heads) |-> Invocation(h)]

\* C18: a call that returns has invoked every head exactly once, in
\* construction order, each with the three inputs of the call and no mask; a
\* call that raises has invoked, once each and with those same arguments,
\* the heads up to the first one that raised and no head after it.
C18_HeadsInvokedOnce ==
    MultiHeadCalled =>
        LET stop == Reached([h \in 1..Len(obj.heads) |->
                                AttentionCall(obj.heads[h], last.args.xq,
                                              last.args.xk, last.args.xv, NoMask)])
        IN /\ last.ret.invoked = [h \in 1..stop |-> Invocation(h)]
           /\ last.ret.err = "none" => stop = Len(obj.heads)

\* C18 witness: a call on two heads with different query and key sources
\* returned
C18_Witness ==
    /\ MultiHeadReturned
    /\ Len(obj.heads) = 2
    /\ Len(last.ret.invoked) = 2
    /\ last.args.xq /= last.args.xk

\* C19: the heads of one call do not depend on one another: in whichever
\* order they run and finish, the call ends as the sequential call in
\* construction order does, with the same exception or the same array, and
\* block i of the array is the output of head i.
C19_AnyOrderSameResult ==
    MultiHeadCalled =>
        LET seq == MultiHeadAttentionCall(obj, last.args.xq, last.args.xk, last.args.xv)
            k == Len(obj.heads)
        IN /\ last.ret.err = seq.err
           /\ last.ret.result = seq.result
           /\ last.ret.err = "none" =>
                 \A i \in 1..k :
                     Block(last.ret.result, i, k, obj.col_dim)
                         = AttentionCall(obj.heads[i], last.args.xq, last.args.xk,
                                         last.args.xv, NoMask).attention_scores

\* C19 witness: the second head finished before the first, their outputs
\* differ, and the call returned
C19_Witness ==
    /\ MultiHeadReturned
    /\ Len(obj.heads) = 2
    /\ last.ret.invoked[1].head = 2
    /\ last.ret.outputs[1] /= last.ret.outputs[2]

\* C20: a head's call projects, takes the similarities, scales them by
\* 1/sqrt(d), applies the mask, normalises and aggregates, in that order:
\* the masked scores are the scaled scores with the sentinel -1e9 itself in
\* place of every entry the mask has true and every other entry as it was
\* (all of them when no mask is given), and the softmax reads the masked
\* scores.
C20_MaskAfterScaleBeforeSoftmax ==
    (HeadReturned /\ obj.cls = "Attention" /\ MaskOk(last.args)) =>
        LET f == last.ret
            m == last.args.mask
            root == SqrtFx(obj.d_model)
        IN /\ f.q = Matmul(last.args.xq, obj.W_q)
           /\ f.k = Matmul(last.args.xk, obj.W_k)
           /\ f.v = Matmul(last.args.xv, obj.W_v)
           /\ f.sims = Matmul(f.q, Swapaxes(f.k, obj.row_dim, obj.col_dim))
           /\ f.scaled_sims.nr = f.sims.nr /\ f.scaled_sims.nc = f.sims.nc
           /\ f.masked_sims.nr = f.sims.nr /\ f.masked_sims.nc = f.sims.nc
           /\ \A i \in 1..f.sims.nr : \A j \in 1..f.sims.nc :
                 /\ f.scaled_sims.e[i][j] = ScaleFx(f.sims.e[i][j], root)
                 /\ f.masked_sims.e[i][j]
                        = IF m.given /\ m.e[i][j] THEN Sentinel * ScoreRes
                          ELSE f.scaled_sims.e[i][j]
           /\ f.attention_percents = Softmax(f.masked_sims, obj.col_dim)
           /\ f.attention_scores = Aggregate(f.attention_percents, f.v)

\* C20 witness: a head with d = 2 returned from a call with a mask that
\* forbids one position of a row and leaves open another whose scaled score
\* is not zero
C20_Witness ==
    /\ HeadReturned
    /\ obj.cls = "Attention"
    /\ obj.d_model = 2
    /\ MaskOk(last.args)
    /\ last.args.mask.given
    /\ \E i \in 1..last.args.mask.nr : \E j, t \in 1..last.args.mask.nc :
          /\ last.args.mask.e[i][j]
          /\ ~last.args.mask.e[i][t]
          /\ last.ret.scaled_sims.e[i][t] /= 0
          /\ last.ret.masked_sims.e[i][j] = Sentinel * ScoreRes

\* the first n columns of m
FirstColumns(m, n) == Mat(m.nr, n, [r \in 1..m.nr, c \in 1..n |-> m.e[r][c]])

\* the heads of an instance: those of a MultiHeadAttention, or the head itself
HeadsOf(self) == IF self.cls = "MultiHeadAttention" THEN self.heads ELSE <<self>>

\* C21: for fresh sources of one seed, head i of a MultiHeadAttention has the
\* weights of head i of every MultiHeadAttention with fewer heads (and head 1
\* those of a single Attention), whatever num_heads is: the first j*d columns
\* of the output of k heads are the whole output of j <= k heads on the same
\* inputs.
C21_FewerHeadsArePrefix ==
    (/\ obj.cls = "MultiHeadAttention"
     /\ twin.obj.cls \in {"MultiHeadAttention", "Attention"}
     /\ made.count = 0 /\ twin.made.count = 0
     /\ made.seed = twin.made.seed) =>
        LET mine == obj.heads
            theirs == HeadsOf(twin.obj)
            j == Len(theirs)
            a == last.args
        IN (/\ 1 <= j /\ j <= Len(mine)
            /\ theirs[1].d_model = mine[1].d_model) =>
               /\ \A i \in 1..j : Weights(mine[i]) = Weights(theirs[i])
               /\ MultiHeadReturned =>
                     FirstColumns(last.ret.result, j * mine[1].d_model)
                         = IF twin.obj.cls = "MultiHeadAttention"
                           THEN MultiHeadAttentionCall(twin.obj, a.xq, a.xk, a.xv).result
                           ELSE AttentionCall(twin.obj, a.xq, a.xk, a.xv, NoMask)
                                    .attention_scores

\* C21 witness: two heads returned an output whose halves differ, beside a
\* kept one-head instance built from a fresh source of the same seed
C21_Witness ==
    /\ MultiHeadReturned
    /\ Len(obj.heads) = 2
    /\ twin.obj.cls = "MultiHeadAttention"
    /\ Len(twin.obj.heads) = 1
    /\ twin.made = made
    /\ made.count = 0
    /\ twin.obj.heads[1].d_model = obj.heads[1].d_model
    /\ last.ret.outputs[1] /= last.ret.outputs[2]

\* C22: heads of different classes with equal weights and axes agree on one
\* array X as every source: without a mask SelfAttention(X), Attention(X, X,
\* X) and MaskedSelfAttention(X) return the same, and with a mask M
\* MaskedSelfAttention(X, M) and Attention(X, X, X, M) return the same (or
\* raise the same).
C22_ClassesAgree ==
    (/\ HeadCalled
     /\ twin.obj.cls \in HeadClasses
     /\ Weights(twin.obj) = Weights(obj)
     /\ twin.obj.d_model = obj.d_model
     /\ twin.obj.row_dim = obj.row_dim /\ twin.obj.col_dim = obj.col_dim
     /\ (last.args.mask.given => "SelfAttention" \notin {obj.cls, twin.obj.cls})) =>
        LET other == CallOf(twin.obj, last.args)
        IN /\ last.ret.err = other.err
           /\ last.ret.attention_scores = other.attention_scores
           /\ last.ret.attention_percents = other.attention_percents

\* C22 witness: a SelfAttention with d = 2 returned an output that is not
\* all zero, beside a kept Attention with the same weights
C22_Witness ==
    /\ HeadReturned
    /\ obj.cls = "SelfAttention"
    /\ twin.obj.cls = "Attention"
    /\ Weights(twin.obj) = Weights(obj)
    /\ obj.d_model = 2
    /\ \E i \in 1..last.ret.attention_scores.nr :
          last.ret.attention_scores.e[i][1] /= 0

\* C23: every head of any of the three classes holds one array as W_q, W_k
\* and W_v, drawn with the single key of its construction; so on a call with
\* one array as every source Q = K = V and the similarity matrix Q K^T is
\* symmetric.
C23_OneKeyThreeDraws ==
    /\ \A h \in {obj, twin.obj} :
          h.cls \in HeadClasses => (h.W_q = h.W_k /\ h.W_k = h.W_v)
    /\ (/\ obj.cls \in HeadClasses
        /\ made.seed >= 0) =>
           obj.W_q = Uniform(<<made.seed, made.count>>, obj.d_model)
    /\ (HeadCalled /\ IsSelf(last.args) /\ last.ret.sims /= NoMat) =>
           LET f == last.ret
           IN /\ f.q = f.k /\ f.k = f.v
              /\ f.sims.nr = f.sims.nc
              /\ \A i, j \in 1..f.sims.nr : f.sims.e[i][j] = f.sims.e[j][i]

\* C23 witness: a SelfAttention with d = 2 returned from a call on two
\* positions whose similarity matrix is not constant
C23_Witness ==
    /\ HeadReturned
    /\ obj.cls = "SelfAttention"
    /\ obj.d_model = 2
    /\ last.ret.sims.nr = 2
    /\ last.ret.sims.e[1][2] /= last.ret.sims.e[1][1]
    /\ last.ret.q.e[1] /= last.ret.q.e[2]

====
